---- MODULE Spec2Model ----
(***************************************************************************)
(* A model of ui-monitor: tools/compare_latest_pair.py (the per-page       *)
(* comparison run) and the image filter of tools/drive_sync.py.            *)
(*                                                                         *)
(* Three specifications share the module:                                  *)
(*   Spec     - module load (thresholds) and main(): the loop over pages   *)
(*   SpecSel  - one page directory: glob, sorted(key=natural_key), the     *)
(*              selection of imgs[-2], imgs[-1], and drive_sync's filter   *)
(*   SpecZone - guess_zone applied to a dissimilarity grid                 *)
(***************************************************************************)
EXTENDS Integers, Sequences, FiniteSets, TLC

\* ------------------------------------------------------------------ bounds
\* pages under INPUT_LOCAL_ROOT in one run
MaxPages == 3
\* files in one page directory
MaxFiles == 3
\* rows and columns of a dissimilarity grid
MaxH == 4
MaxW == 2

\* ------------------------------------------------------- program constants
\* round(ssim_score, 5): the digits a recorded score keeps
RoundDigits == 5
\* scores and thresholds are held with one digit more than the recorded
\* score (0.985 is 985000)
Unit == 10 ^ (RoundDigits + 1)
RoundStep == Unit \div (10 ^ RoundDigits)

NoValue == "unset"
ValueError == "ValueError"
TypeError == "TypeError"

\* ------------------------------------------------------------- characters
Digits == <<"0", "1", "2", "3", "4", "5", "6", "7", "8", "9">>

IsDigit(c) == \E i \in 1..10 : Digits[i] = c

DigitVal(c) == (CHOOSE i \in 1..10 : Digits[i] = c) - 1

\* ord() of the characters file names are built from
Ord(c) ==
  CASE c = " " -> 32 [] c = "-" -> 45 [] c = "." -> 46 [] c = "_" -> 95
    [] IsDigit(c) -> 48 + DigitVal(c)
    [] c = "G" -> 71 [] c = "J" -> 74 [] c = "N" -> 78 [] c = "P" -> 80
    [] c = "a" -> 97 [] c = "b" -> 98 [] c = "c" -> 99 [] c = "d" -> 100
    [] c = "e" -> 101 [] c = "g" -> 103 [] c = "h" -> 104 [] c = "i" -> 105
    [] c = "j" -> 106 [] c = "l" -> 108 [] c = "m" -> 109 [] c = "n" -> 110
    [] c = "o" -> 111 [] c = "p" -> 112 [] c = "s" -> 115 [] c = "t" -> 116
    [] c = "w" -> 119 [] c = "x" -> 120
    [] OTHER -> 0

\* str.lower() of one character
LowerChar(c) ==
  CASE c = "G" -> "g" [] c = "J" -> "j" [] c = "N" -> "n" [] c = "P" -> "p"
    [] OTHER -> c

Lower(s) == [i \in 1..Len(s) |-> LowerChar(s[i])]

Reverse(s) == [i \in 1..Len(s) |-> s[Len(s) + 1 - i]]

RECURSIVE Concat(_)
Concat(ss) == IF ss = <<>> THEN <<>> ELSE Head(ss) \o Concat(Tail(ss))

\* lexicographic order of two sequences of integers
RECURSIVE LexLess(_, _)
LexLess(a, b) ==
  IF b = <<>> THEN FALSE
  ELSE IF a = <<>> THEN TRUE
  ELSE IF Head(a) # Head(b) THEN Head(a) < Head(b)
  ELSE LexLess(Tail(a), Tail(b))

\* ------------------------------------------------------------- sort keys
\* A sort key is a Python value: a datetime, a float (a ratio, or nan), or
\* a str.
DatetimeKey(dt) ==
  [type |-> "datetime", dt |-> dt, num |-> 0, den |-> 1, nan |-> FALSE, s |-> <<>>]

FloatKey(num, den) ==
  [type |-> "float", dt |-> <<>>, num |-> num, den |-> den, nan |-> FALSE, s |-> <<>>]

NanKey ==
  [type |-> "float", dt |-> <<>>, num |-> 0, den |-> 1, nan |-> TRUE, s |-> <<>>]

StrKey(s) ==
  [type |-> "str", dt |-> <<>>, num |-> 0, den |-> 1, nan |-> FALSE, s |-> s]

\* a < b between two keys of one type; every comparison with nan is False
KeyLess(a, b) ==
  CASE a.type = "datetime" -> LexLess(a.dt, b.dt)
    [] a.type = "float" -> ~a.nan /\ ~b.nan /\ a.num * b.den < b.num * a.den
    [] OTHER -> LexLess([i \in 1..Len(a.s) |-> Ord(a.s[i])],
                        [i \in 1..Len(b.s) |-> Ord(b.s[i])])

\* ------------------------------------------------------------- list.sort
\* list.sort / sorted of a list shorter than one minrun (64): the first run
\* is counted, reversed if strictly descending, and the rest is inserted by
\* binary insertion; reverse=True reverses the list before and after.
\* An entry is <<item, key>>.
RECURSIVE RunEnd(_, _, _)
RunEnd(s, i, desc) ==
  IF i > Len(s) THEN Len(s)
  ELSE IF KeyLess(s[i][2], s[i - 1][2]) = desc THEN RunEnd(s, i + 1, desc)
  ELSE i - 1

CountRun(s) ==
  IF Len(s) < 2 THEN [n |-> Len(s), desc |-> FALSE]
  ELSE LET d == KeyLess(s[2][2], s[1][2])
       IN [n |-> RunEnd(s, 3, d), desc |-> d]

RECURSIVE Bisect(_, _, _, _)
Bisect(s, pivot, l, r) ==
  LET p == l + ((r - l) \div 2)
      lt == KeyLess(pivot[2], s[p][2])
      l2 == IF lt THEN l ELSE p + 1
      r2 == IF lt THEN p ELSE r
  IN IF l2 < r2 THEN Bisect(s, pivot, l2, r2) ELSE l2

InsertAt(s, start, l) ==
  [i \in 1..Len(s) |->
     IF i < l THEN s[i]
     ELSE IF i = l THEN s[start]
     ELSE IF i <= start THEN s[i - 1]
     ELSE s[i]]

RECURSIVE BinarySort(_, _)
BinarySort(s, start) ==
  IF start > Len(s) THEN s
  ELSE BinarySort(InsertAt(s, start, Bisect(s, s[start], 1, start)), start + 1)

ReverseSlice(s, n) == [i \in 1..Len(s) |-> IF i <= n THEN s[n + 1 - i] ELSE s[i]]

ListSort(s, reverse) ==
  LET a == IF reverse THEN Reverse(s) ELSE s
      run == CountRun(a)
      b == IF run.desc THEN ReverseSlice(a, run.n) ELSE a
      c == IF Len(a) < 2 THEN a ELSE BinarySort(b, run.n + 1)
  IN IF reverse THEN Reverse(c) ELSE c

\* ------------------------------------------------------------ guess_zone
PixelVals == {0, 255}

\* the grids norm can be: h rows of w pixels
Grids == UNION {[1..h -> [1..w -> PixelVals]] : h \in 1..MaxH, w \in 1..MaxW}

RECURSIVE SumSeq(_)
SumSeq(s) == IF s = <<>> THEN 0 ELSE Head(s) + SumSeq(Tail(s))

\* norm[lo:hi, :] with Python's 0-based, half-open, clamped slice bounds
Slice(norm, lo, hi) ==
  LET a == IF lo > Len(norm) THEN Len(norm) ELSE lo
      b == IF hi > Len(norm) THEN Len(norm) ELSE hi
  IN IF b <= a THEN <<>> ELSE SubSeq(norm, a + 1, b)

\* ndarray.mean(): nan (with a warning, no exception) on an empty slice
Mean(rows) ==
  IF rows = <<>> THEN NanKey
  ELSE FloatKey(SumSeq([i \in 1..Len(rows) |-> SumSeq(rows[i])]),
                Len(rows) * Len(rows[1]))

BandHeight(h) == IF h >= 3 THEN h \div 3 ELSE 1

\* the zones list of guess_zone before it is sorted
ZoneList(norm) ==
  LET h == Len(norm)
      band == BandHeight(h)
  IN << <<"top", IF band > 0 THEN Mean(Slice(norm, 0, band)) ELSE FloatKey(0, 1)>>,
        <<"middle", IF band > 0 THEN Mean(Slice(norm, band, 2 * band)) ELSE FloatKey(0, 1)>>,
        <<"bottom", IF band > 0 THEN Mean(Slice(norm, 2 * band, h)) ELSE FloatKey(0, 1)>> >>

\* an ascending sort whose last entry is returned
guess_zone_ascending(norm) == ListSort(ZoneList(norm), FALSE)[3][1]

guess_zone(norm) == ListSort(ZoneList(norm), TRUE)[1][1]

ZoneLabels == {"top", "middle", "bottom"}

\* ------------------------------------------------------------ file names
\* A file name is its stem and its extension (the text after the last dot).
\* The stem is a leading dot or nothing, then either six digit fields
\* (vals) joined by five separators (seps) or free text.
TS_FORMATS ==
  << <<"-", "-", "_", "-", "-">>,
     <<"", "", "-", "", "">>,
     <<"", "", "_", "", "">>,
     <<"-", "-", " ", ".", ".">> >>

IsLeap(y) == (y % 4 = 0 /\ y % 100 # 0) \/ y % 400 = 0

DaysIn(y, m) ==
  IF m = 2 THEN (IF IsLeap(y) THEN 29 ELSE 28)
  ELSE IF m \in {4, 6, 9, 11} THEN 30 ELSE 31

\* datetime.strptime(stem, fmt): the datetime, or the ValueError raised
Strptime(name, fmt) ==
  IF /\ name.lead = ""
     /\ name.text = <<>>
     /\ Len(name.vals) = 6
     /\ name.seps = fmt
     /\ name.vals[1] \in 1..9999
     /\ name.vals[2] \in 1..12
     /\ name.vals[3] \in 1..DaysIn(name.vals[1], name.vals[2])
     /\ name.vals[4] \in 0..23
     /\ name.vals[5] \in 0..59
     /\ name.vals[6] \in 0..61
  THEN [raised |-> "", dt |-> name.vals]
  ELSE [raised |-> ValueError, dt |-> <<>>]

RECURSIVE Padded(_, _)
Padded(n, width) ==
  IF width = 0 THEN <<>>
  ELSE Append(Padded(n \div 10, width - 1), Digits[(n % 10) + 1])

FieldWidths == <<4, 2, 2, 2, 2, 2>>

\* Path(p).stem as a string of characters
StemChars(name) ==
  LET lead == IF name.lead = "" THEN <<>> ELSE <<name.lead>>
      field(i) == Padded(name.vals[i], FieldWidths[i])
      sep(i) == IF i > Len(name.seps) \/ name.seps[i] = "" THEN <<>>
                ELSE <<name.seps[i]>>
      fields == Concat([i \in 1..Len(name.vals) |-> field(i) \o sep(i)])
  IN lead \o fields \o name.text

\* the first format that parses, else the modification time, else the stem
natural_key(f) ==
  LET hits == {i \in 1..Len(TS_FORMATS) : Strptime(f.name, TS_FORMATS[i]).raised = ""}
  IN IF hits # {}
     THEN DatetimeKey(Strptime(f.name, TS_FORMATS[CHOOSE i \in hits : \A j \in hits : i <= j]).dt)
     ELSE IF f.statOK THEN FloatKey(f.mtime, 1)
     ELSE StrKey(StemChars(f.name))

TsName(seps, vals, ext) ==
  [lead |-> "", seps |-> seps, vals |-> vals, text |-> <<>>, ext |-> ext]

TextName(lead, text, ext) ==
  [lead |-> lead, seps |-> <<>>, vals |-> <<>>, text |-> text, ext |-> ext]

File(name, mtime, statOK) == [name |-> name, mtime |-> mtime, statOK |-> statOK]

png == <<"p", "n", "g">>
jpg == <<"j", "p", "g">>
jpeg == <<"j", "p", "e", "g">>
webp == <<"w", "e", "b", "p">>

\* 2025-01-01_10-00-00.png
F1 == File(TsName(TS_FORMATS[1], <<2025, 1, 1, 10, 0, 0>>, png), 30, TRUE)
\* 20250102-100000.jpg, written to disk before F1
F2 == File(TsName(TS_FORMATS[2], <<2025, 1, 2, 10, 0, 0>>, jpg), 10, TRUE)
\* 2025-13-01 10.00.00.png: no format parses month 13
F3 == File(TsName(TS_FORMATS[4], <<2025, 13, 1, 10, 0, 0>>, png), 20, TRUE)
\* home.png, with the modification time of F3
F4 == File(TextName("", <<"h", "o", "m", "e">>, png), 20, TRUE)
\* shot.PNG
F5 == File(TextName("", <<"s", "h", "o", "t">>, <<"P", "N", "G">>), 40, TRUE)
\* pic.Jpeg
F6 == File(TextName("", <<"p", "i", "c">>, <<"J", "p", "e", "g">>), 50, TRUE)
\* notes.txt
F7 == File(TextName("", <<"n", "o", "t", "e", "s">>, <<"t", "x", "t">>), 60, TRUE)
\* old.webp and new.webp, which stat() cannot reach
F8 == File(TextName("", <<"o", "l", "d">>, webp), 80, FALSE)
F9 == File(TextName("", <<"n", "e", "w">>, webp), 90, FALSE)

Files == {F1, F2, F3, F4, F5, F6, F7, F8, F9}

Dirs(files) == {d \in SUBSET files : Cardinality(d) <= MaxFiles}

\* ------------------------------------------------------------------ glob
Platforms == {"posix", "nt"}

\* os.path.normcase: lower-cases on Windows, the identity elsewhere
Normcase(s, plat) == IF plat = "nt" THEN Lower(s) ELSE s

\* fnmatch of a name against "*.<ext>"; glob never lets * match a
\* leading dot
FnMatch(name, ext, plat) ==
  name.lead # "." /\ Normcase(name.ext, plat) = Normcase(ext, plat)

GlobPatterns == <<png, jpg, jpeg, webp>>

Perms(S) ==
  {s \in [1..Cardinality(S) -> S] : \A i, j \in 1..Cardinality(S) : s[i] = s[j] => i = j}

\* the lists the four glob.glob calls can add up to: within one pattern the
\* directory is listed in no particular order
GlobResults(dir, plat) ==
  LET hits(k) == {f \in dir : FnMatch(f.name, GlobPatterns[k], plat)}
  IN {a \o b \o c \o d : a \in Perms(hits(1)), b \in Perms(hits(2)),
                         c \in Perms(hits(3)), d \in Perms(hits(4))}

\* sorted(imgs, key=natural_key): the sorted list, or the TypeError raised
\* when two keys of different types are compared
SortedImgs(imgs) ==
  LET keyed == [i \in 1..Len(imgs) |-> <<imgs[i], natural_key(imgs[i])>>]
      mixed == \E i, j \in 1..Len(imgs) : keyed[i][2].type # keyed[j][2].type
      done == ListSort(keyed, FALSE)
  IN IF mixed THEN [raised |-> TypeError, list |-> <<>>]
     ELSE [raised |-> "", list |-> [i \in 1..Len(imgs) |-> done[i][1]]]

\* a length check that is off by one
TooFew_offByOne(imgs) == Len(imgs) <= 2

TooFew(imgs) == Len(imgs) < 2

\* a selection of the two oldest files
SelectPair_oldest(imgs) == <<imgs[1], imgs[2]>>

\* a_path, b_path = imgs[-2], imgs[-1]
SelectPair(imgs) == <<imgs[Len(imgs) - 1], imgs[Len(imgs)]>>

\* ------------------------------------------------------------ drive_sync
\* re.search(r"\.(png|jpg|jpeg|webp)$", title, re.IGNORECASE)
DriveIsImage(name) == Lower(name.ext) \in {png, jpg, jpeg, webp}
\* ---------------------------------------------------------- configuration
\* float(s) for a string of sign, digits and dot: the value in Unit-ths, or
\* the ValueError raised
RECURSIVE DigitsVal(_)
DigitsVal(s) == IF s = <<>> THEN 0 ELSE 10 * DigitsVal(SubSeq(s, 1, Len(s) - 1)) + DigitVal(s[Len(s)])

AllDigits(s) == \A i \in 1..Len(s) : IsDigit(s[i])

ParseFloat(s) ==
  LET neg == s # <<>> /\ s[1] = "-"
      body == IF neg THEN Tail(s) ELSE s
      dots == {i \in 1..Len(body) : body[i] = "."}
      ip == IF dots = {} THEN body ELSE SubSeq(body, 1, (CHOOSE i \in dots : TRUE) - 1)
      fp == IF dots = {} THEN <<>> ELSE SubSeq(body, (CHOOSE i \in dots : TRUE) + 1, Len(body))
      ok == /\ Cardinality(dots) <= 1
            /\ AllDigits(ip) /\ AllDigits(fp)
            /\ Len(ip) + Len(fp) >= 1
            /\ Len(fp) <= RoundDigits + 1
      mag == DigitsVal(ip) * Unit + DigitsVal(fp) * (10 ^ (RoundDigits + 1 - Len(fp)))
  IN IF ok THEN [raised |-> "", val |-> IF neg THEN 0 - mag ELSE mag]
     ELSE [raised |-> ValueError, val |-> 0]

\* int(s) for a string of sign, digits and dot
ParseInt(s) ==
  LET neg == s # <<>> /\ s[1] = "-"
      body == IF neg THEN Tail(s) ELSE s
      ok == body # <<>> /\ AllDigits(body)
  IN IF ok THEN [raised |-> "", val |-> IF neg THEN 0 - DigitsVal(body) ELSE DigitsVal(body)]
     ELSE [raised |-> ValueError, val |-> 0]

\* os.environ.get(name, default)
EnvGet(value, default) == IF value = <<NoValue>> THEN default ELSE value

SSIM_DEFAULT == <<"0", ".", "9", "8", "5">>
PHASH_DEFAULT == <<"8">>

\* what SSIM_THRESHOLD and PHASH_THRESHOLD are set to in the environment
SsimEnvs == {<<NoValue>>, <<"1", ".", "5">>, <<"x">>}
PhashEnvs == {<<NoValue>>, <<"-", "1">>, <<"8", ".", "5">>}

\* ------------------------------------------------------------- classifier
\* a classifier that also flags the boundary values
Changed_boundary(score, pdelta, ssimT, phashT) == (score <= ssimT) \/ (pdelta >= phashT)

\* changed = (ssim_score < SSIM_THRESHOLD) or (pdelta > PHASH_THRESHOLD)
Changed(score, pdelta, ssimT, phashT) == (score < ssimT) \/ (pdelta > phashT)

\* a zone computed whatever the verdict
ZoneFor_always(changed, zoneOf, norm) == zoneOf[norm]

\* zone = guess_zone(norm) if changed else ""
ZoneFor(changed, zoneOf, norm) == IF changed THEN zoneOf[norm] ELSE ""

\* round(ssim_score, 5), in units of 10^-5
Round5(score) == (score + (RoundStep \div 2)) \div RoundStep
\* ------------------------------------------------------------------ state
VARIABLES
  platform,         \* the operating system the run is on
  pc,               \* "load", "loop", "done", "aborted" or "config_error"
  ssimEnv,          \* os.environ["SSIM_THRESHOLD"], or <<NoValue>>
  phashEnv,         \* os.environ["PHASH_THRESHOLD"], or <<NoValue>>
  SSIM_THRESHOLD,   \* in Unit-ths
  PHASH_THRESHOLD,
  nPages,           \* len(folders); folders are numbered in sorted order
  idx,              \* the folder the loop is at
  obs,              \* per folder visited: what the iteration read and met
  rows,
  zoneCalls,        \* the pages guess_zone was called for
  report,           \* the rows written to summary.csv / report.html
  stitles,          \* SpecSel: the files of one page folder on Drive
  sdir,             \* SpecSel: the page directory on disk
  simgs,            \* SpecSel: imgs after the glob loop
  ssorted,          \* SpecSel: imgs after sorted()
  spair,            \* SpecSel: <<a_path, b_path>>
  spc,              \* SpecSel: "drive", "local", "globbed", "sorted", ...
  znorm,            \* SpecZone: the grid
  zzones,           \* SpecZone: zones before the sort
  zzone,            \* SpecZone: the label returned
  zpc               \* SpecZone: "start" or "done"

runVars == <<pc, ssimEnv, phashEnv, SSIM_THRESHOLD, PHASH_THRESHOLD, nPages, idx,
             obs, rows, zoneCalls, report>>
selVars == <<stitles, sdir, simgs, ssorted, spair, spc>>
zoneVars == <<znorm, zzones, zzone, zpc>>
vars == <<platform, runVars, selVars, zoneVars>>

RunIdle ==
  /\ pc = "idle" /\ ssimEnv = <<NoValue>> /\ phashEnv = <<NoValue>>
  /\ SSIM_THRESHOLD = 0 /\ PHASH_THRESHOLD = 0 /\ nPages = 0 /\ idx = 1
  /\ obs = <<>> /\ rows = <<>> /\ zoneCalls = {} /\ report = <<>>

SelIdle ==
  /\ stitles = {} /\ sdir = {} /\ simgs = <<>> /\ ssorted = <<>> /\ spair = <<>>
  /\ spc = "idle"

ZoneIdle == znorm = <<>> /\ zzones = <<>> /\ zzone = "" /\ zpc = "idle"

\* ------------------------------------------------------------ module load
\* lines 11-12 run when the module is imported, before main()
LoadConfig ==
  /\ pc = "load"
  /\ LET s == ParseFloat(EnvGet(ssimEnv, SSIM_DEFAULT))
         p == ParseInt(EnvGet(phashEnv, PHASH_DEFAULT))
     IN IF s.raised # "" \/ p.raised # ""
        THEN /\ pc' = "config_error"
             /\ UNCHANGED <<SSIM_THRESHOLD, PHASH_THRESHOLD>>
        ELSE /\ pc' = "loop"
             /\ SSIM_THRESHOLD' = s.val
             /\ PHASH_THRESHOLD' = p.val
  /\ UNCHANGED <<platform, ssimEnv, phashEnv, nPages, idx, obs, rows, zoneCalls, report>>
  /\ UNCHANGED <<selVars, zoneVars>>

\* ------------------------------------------------------------------ main
\* the files a page directory of the run is made of
RunFiles == {F1, F2, F4, F5}

\* the scores ssim_diff returns, in Unit-ths, and the distances
\* phash_distance returns
Scores == {984996, 985000}
PDeltas == {8, 9}

\* the grids ssim_diff returns in a run: three rows of one pixel
RunGrids == [1..3 -> [1..1 -> PixelVals]]

\* guess_zone over the grids of a run
RunZone == [g \in RunGrids |-> guess_zone(g)]

\* what one iteration reads of its page directory: len(imgs), what sorted()
\* raised, and the pair selected
PageRead(imgs) ==
  LET r == SortedImgs(imgs)
  IN [n |-> Len(imgs),
      raised |-> r.raised,
      few |-> r.raised = "" /\ TooFew(r.list),
      pair |-> IF r.raised = "" /\ ~TooFew(r.list) THEN SelectPair(r.list) ELSE <<>>]

\* the reads a page directory of the run can give
PageReads ==
  {PageRead(imgs) : imgs \in UNION {GlobResults(dir, "posix") : dir \in Dirs(RunFiles)}}

Observed(n, outcome, score, pdelta) ==
  [nimgs |-> n, outcome |-> outcome, score |-> score, pdelta |-> pdelta]

Row(page, pair, score, pdelta, changed, zone) ==
  [page |-> page,
   prev_image |-> pair[1].name,
   curr_image |-> pair[2].name,
   ssim |-> Round5(score),
   phash_delta |-> pdelta,
   changed |-> changed,
   likely_zone |-> zone,
   heatmap |-> <<page, pair[1].name, pair[2].name>>]

InLoop == pc = "loop" /\ idx <= nPages

NextPage(o) ==
  /\ idx' = idx + 1
  /\ obs' = Append(obs, o)
  /\ UNCHANGED <<platform, pc, ssimEnv, phashEnv, SSIM_THRESHOLD, PHASH_THRESHOLD, nPages>>
  /\ UNCHANGED <<selVars, zoneVars>>

Abort(o) ==
  /\ pc' = "aborted"
  /\ obs' = Append(obs, o)
  /\ UNCHANGED <<platform, ssimEnv, phashEnv, SSIM_THRESHOLD, PHASH_THRESHOLD, nPages, idx,
                 rows, zoneCalls, report>>
  /\ UNCHANGED <<selVars, zoneVars>>

\* an iteration that ends at "if len(imgs) < 2: continue"
SkipPage ==
  /\ InLoop
  /\ \E rd \in PageReads :
       /\ rd.raised = ""
       /\ rd.few
       /\ NextPage(Observed(rd.n, "few", 0, 0))
  /\ UNCHANGED <<rows, zoneCalls, report>>

\* an iteration in which sorted() raises: nothing in main catches it
SortRaises ==
  /\ InLoop
  /\ \E rd \in PageReads :
       /\ rd.raised # ""
       /\ Abort(Observed(rd.n, "sorted", 0, 0))

\* an iteration that ends at "if img_a is None or img_b is None: continue"
SkipUndecodable ==
  /\ InLoop
  /\ \E rd \in PageReads : \E okA, okB \in BOOLEAN :
       /\ rd.raised = ""
       /\ ~rd.few
       /\ ~(okA /\ okB)
       /\ NextPage(Observed(rd.n, "undecodable", 0, 0))
  /\ UNCHANGED <<rows, zoneCalls, report>>

\* an iteration in which ssim_diff (an image smaller than the 7x7 window)
\* or phash_distance (a file PIL cannot open) raises
CompareRaises ==
  /\ InLoop
  /\ \E rd \in PageReads : \E call \in {"ssim_diff", "phash_distance"} :
       /\ rd.raised = ""
       /\ ~rd.few
       /\ Abort(Observed(rd.n, call, 0, 0))

\* an iteration that reaches rows.append
RecordPage ==
  /\ InLoop
  /\ \E rd \in PageReads :
     \E score \in Scores, pdelta \in PDeltas, norm \in RunGrids :
       /\ rd.raised = ""
       /\ ~rd.few
       /\ LET changed == Changed(score, pdelta, SSIM_THRESHOLD, PHASH_THRESHOLD)
              zone == ZoneFor(changed, RunZone, norm)
          IN /\ rows' = Append(rows, Row(idx, rd.pair, score, pdelta, changed, zone))
             /\ zoneCalls' = IF changed THEN zoneCalls \cup {idx} ELSE zoneCalls
             /\ NextPage(Observed(rd.n, "row", score, pdelta))
  /\ UNCHANGED report

\* DataFrame.sort_values(["changed", "page"], ascending=[False, True]) of
\* rows, which are in page order
SortedRows(rs) ==
  SelectSeq(rs, LAMBDA r : r.changed) \o SelectSeq(rs, LAMBDA r : ~r.changed)

\* the end of the loop: nothing is written when rows is empty
Finish ==
  /\ pc = "loop" /\ idx > nPages
  /\ pc' = "done"
  /\ report' = IF rows = <<>> THEN <<>> ELSE SortedRows(rows)
  /\ UNCHANGED <<platform, ssimEnv, phashEnv, SSIM_THRESHOLD, PHASH_THRESHOLD, nPages, idx,
                 obs, rows, zoneCalls>>
  /\ UNCHANGED <<selVars, zoneVars>>

Init ==
  /\ platform = "posix"
  /\ pc = "load"
  /\ ssimEnv \in SsimEnvs
  /\ phashEnv \in PhashEnvs
  /\ SSIM_THRESHOLD = 0 /\ PHASH_THRESHOLD = 0
  /\ nPages \in 0..MaxPages
  /\ idx = 1
  /\ obs = <<>> /\ rows = <<>> /\ zoneCalls = {} /\ report = <<>>
  /\ SelIdle /\ ZoneIdle

Next ==
  \/ LoadConfig
  \/ SkipPage
  \/ SortRaises
  \/ SkipUndecodable
  \/ CompareRaises
  \/ RecordPage
  \/ Finish

Spec == Init /\ [][Next]_vars

\* -------------------------------------------- one page: mirror and select
\* download_folder_tree: the files of the Drive folder that are mirrored
Download ==
  /\ spc = "drive"
  /\ sdir' = {f \in stitles : DriveIsImage(f.name)}
  /\ spc' = "local"
  /\ UNCHANGED <<platform, stitles, simgs, ssorted, spair, runVars, zoneVars>>

\* main, lines 72-74
Glob ==
  /\ spc = "local"
  /\ \E imgs \in GlobResults(sdir, platform) : simgs' = imgs
  /\ spc' = "globbed"
  /\ UNCHANGED <<platform, stitles, sdir, ssorted, spair, runVars, zoneVars>>

\* main, line 75
Sort ==
  /\ spc = "globbed"
  /\ LET r == SortedImgs(simgs)
     IN IF r.raised # ""
        THEN spc' = "raised" /\ UNCHANGED ssorted
        ELSE spc' = "sorted" /\ ssorted' = r.list
  /\ UNCHANGED <<platform, stitles, sdir, simgs, spair, runVars, zoneVars>>

\* main, lines 76-77
Skip ==
  /\ spc = "sorted"
  /\ TooFew(ssorted)
  /\ spc' = "skipped"
  /\ UNCHANGED <<platform, stitles, sdir, simgs, ssorted, spair, runVars, zoneVars>>

\* main, line 79
Select ==
  /\ spc = "sorted"
  /\ ~TooFew(ssorted)
  /\ spair' = SelectPair(ssorted)
  /\ spc' = "selected"
  /\ UNCHANGED <<platform, stitles, sdir, simgs, ssorted, runVars, zoneVars>>

InitSel ==
  /\ platform \in Platforms
  /\ stitles \in Dirs(Files)
  /\ sdir = {} /\ simgs = <<>> /\ ssorted = <<>> /\ spair = <<>>
  /\ spc = "drive"
  /\ RunIdle /\ ZoneIdle

NextSel == Download \/ Glob \/ Sort \/ Skip \/ Select

SpecSel == InitSel /\ [][NextSel]_vars

\* ------------------------------------------------------- guess_zone alone
GuessZone ==
  /\ zpc = "start"
  /\ zzones' = ZoneList(znorm)
  /\ zzone' = guess_zone(znorm)
  /\ zpc' = "done"
  /\ UNCHANGED <<platform, znorm, runVars, selVars>>

InitZone ==
  /\ platform = "posix"
  /\ znorm \in Grids
  /\ zzones = <<>> /\ zzone = "" /\ zpc = "start"
  /\ RunIdle /\ SelIdle

NextZone == GuessZone

SpecZone == InitZone /\ [][NextZone]_vars
\* ================================================================ claims
RowOf(p) == CHOOSE i \in 1..Len(rows) : rows[i].page = p

HasRow(p) == \E i \in 1..Len(rows) : rows[i].page = p

\* C1: in every row the changed flag is (score < ssimThreshold) OR
\* (hashDistance > phashThreshold), for the score and distance the page's
\* comparison returned and the thresholds of the run; a page at both
\* boundaries (score = threshold, distance = threshold) is not flagged.
C1_ChangedIsEitherSignal ==
  \A i \in 1..Len(rows) :
    LET o == obs[rows[i].page]
    IN /\ rows[i].changed <=> (o.score < SSIM_THRESHOLD \/ o.pdelta > PHASH_THRESHOLD)
       /\ (o.score >= SSIM_THRESHOLD /\ o.pdelta <= PHASH_THRESHOLD) => ~rows[i].changed

\* a run that recorded a page flagged by the score alone, one flagged by the
\* hash distance alone, and one unflagged at both boundaries
C1_Witness ==
  /\ \E i \in 1..Len(rows) :
       /\ obs[rows[i].page].score < SSIM_THRESHOLD
       /\ obs[rows[i].page].pdelta <= PHASH_THRESHOLD
       /\ rows[i].changed
  /\ \E i \in 1..Len(rows) :
       /\ obs[rows[i].page].score >= SSIM_THRESHOLD
       /\ obs[rows[i].page].pdelta > PHASH_THRESHOLD
       /\ rows[i].changed
  /\ \E i \in 1..Len(rows) :
       /\ obs[rows[i].page].score = SSIM_THRESHOLD
       /\ obs[rows[i].page].pdelta = PHASH_THRESHOLD
       /\ ~rows[i].changed

\* C2: a page whose processing fails (a selected file does not decode, or
\* ssim_diff or phash_distance raises) is skipped: it has no row, and the
\* loop goes on to the page after it.
C2_PageFailureIsolated ==
  \A p \in 1..Len(obs) :
    obs[p].outcome \in {"undecodable", "ssim_diff", "phash_distance"}
      => (~HasRow(p) /\ idx > p)

\* C3: a page with 0 or 1 captures gets no row and the loop goes on past it;
\* no page gets two rows; and a finished run over three pages with 2, 1 and
\* 0 captures, the two captures decoding, has exactly one row, for the page
\* with 2 captures.
C3_FewCapturesNoResult ==
  /\ \A p \in 1..Len(obs) :
       obs[p].nimgs < 2 => (~HasRow(p) /\ obs[p].outcome = "few" /\ idx > p)
  /\ \A i, j \in 1..Len(rows) : rows[i].page = rows[j].page => i = j
  /\ \A p2, p1, p0 \in 1..Len(obs) :
       (/\ pc = "done" /\ nPages = 3
        /\ obs[p2].nimgs = 2 /\ obs[p1].nimgs = 1 /\ obs[p0].nimgs = 0
        /\ obs[p2].outcome # "undecodable")
         => (Len(rows) = 1 /\ rows[1].page = p2 /\ Len(report) = 1)

\* a finished run over pages with 2, 1 and 0 captures, in that order, with
\* its one row
C3_Witness ==
  /\ pc = "done" /\ nPages = 3
  /\ obs[1].nimgs = 2 /\ obs[2].nimgs = 1 /\ obs[3].nimgs = 0
  /\ Len(rows) = 1 /\ rows[1].page = 1

\* C4: for any set of capture names, mixed or not, the keys are derived
\* and sorting the captures by them completes: sorted() never raises.
C4_SortingCompletes == spc # "raised"

KeyLeq(f, g) == ~KeyLess(natural_key(g), natural_key(f))

\* C5: the pair selected is two distinct captures of the page; current has
\* the greatest key of all the page's captures, previous the greatest key
\* of the others, and key(previous) <= key(current).
C5_PairIsLatestTwo ==
  spc = "selected" =>
    LET caps == {simgs[i] : i \in 1..Len(simgs)}
        prev == spair[1]
        cur == spair[2]
    IN /\ prev \in caps /\ cur \in caps /\ prev # cur
       /\ \A f \in caps : KeyLeq(f, cur)
       /\ \A f \in caps \ {cur} : KeyLeq(f, prev)
       /\ KeyLeq(prev, cur)

\* a pair selected from three or more captures that the glob listed in
\* another order than their keys'
C5_Witness ==
  /\ spc = "selected"
  /\ Len(simgs) >= 3
  /\ simgs # ssorted
  /\ KeyLess(natural_key(spair[1]), natural_key(spair[2]))

\* C6: in every row the zone is top, middle or bottom exactly when changed
\* is true and empty exactly when it is false, and guess_zone was called
\* for the changed pages only.
C6_ZoneIffChanged ==
  /\ \A i \in 1..Len(rows) :
       /\ rows[i].changed <=> rows[i].likely_zone \in ZoneLabels
       /\ ~rows[i].changed <=> rows[i].likely_zone = ""
  /\ \A p \in zoneCalls : HasRow(p) /\ rows[RowOf(p)].changed

\* a run with a changed row carrying a zone and an unchanged row without
C6_Witness ==
  /\ \E i \in 1..Len(rows) : rows[i].changed /\ rows[i].likely_zone = "bottom"
  /\ \E i \in 1..Len(rows) : ~rows[i].changed /\ rows[i].likely_zone = ""

\* the sum of rows lo..hi (1-based, inclusive) of a grid
SumRows(norm, lo, hi) == SumSeq([i \in 1..(hi - lo + 1) |-> SumSeq(norm[lo + i - 1])])

IsMean(key, sum, count) == ~key.nan /\ key.num * count = sum * key.den

\* the first of top, middle, bottom whose mean sum/count is not below
\* either of the others
FirstHighest(t, nt, m, nm, b, nb) ==
  IF t * nm >= m * nt /\ t * nb >= b * nt THEN "top"
  ELSE IF m * nb >= b * nm THEN "middle"
  ELSE "bottom"

\* C7: for a grid of h >= 3 rows, with band = h div 3, the three values
\* are the means of rows [0, band), [band, 2*band) and [2*band, h), and the
\* zone returned is the band of highest mean, the first in the order top,
\* middle, bottom on a tie.
C7_BandsAndHighestMean ==
  (zpc = "done" /\ Len(znorm) >= 3) =>
    LET h == Len(znorm)
        w == Len(znorm[1])
        band == h \div 3
        t == SumRows(znorm, 1, band)
        m == SumRows(znorm, band + 1, 2 * band)
        b == SumRows(znorm, 2 * band + 1, h)
    IN /\ IsMean(zzones[1][2], t, band * w)
       /\ IsMean(zzones[2][2], m, band * w)
       /\ IsMean(zzones[3][2], b, (h - 2 * band) * w)
       /\ zzone = FirstHighest(t, band * w, m, band * w, b, (h - 2 * band) * w)

\* a grid of four rows, so that the bottom band has the remainder row,
\* whose middle and bottom bands tie for the highest mean
C7_Witness ==
  /\ zpc = "done"
  /\ Len(znorm) = 4
  /\ SumRows(znorm, 1, 1) < SumRows(znorm, 2, 2)
  /\ 2 * SumRows(znorm, 2, 2) = SumRows(znorm, 3, 4)
  /\ zzone = "middle"

\* C8: for a grid of fewer than 3 rows guess_zone returns; a band without
\* rows has the value 0; and the zone returned is the band of highest
\* value, the first in the order top, middle, bottom on a tie.
C8_EmptyBandIsZero ==
  (zpc = "done" /\ Len(znorm) < 3) =>
    LET h == Len(znorm)
        w == Len(znorm[1])
        t == SumRows(znorm, 1, 1)
        m == IF h >= 2 THEN SumRows(znorm, 2, 2) ELSE 0
    IN /\ zzone \in ZoneLabels
       /\ IsMean(zzones[1][2], t, w)
       /\ IsMean(zzones[2][2], m, w)
       /\ IsMean(zzones[3][2], 0, 1)
       /\ zzone = FirstHighest(t, w, m, w, 0, 1)

\* whether the thresholds the environment sets are malformed or out of
\* range: a similarity threshold that is no number or outside [0, 1], a
\* hash-distance threshold that is no integer or negative
BadThresholds ==
  LET s == ParseFloat(EnvGet(ssimEnv, SSIM_DEFAULT))
      p == ParseInt(EnvGet(phashEnv, PHASH_DEFAULT))
  IN \/ s.raised # "" \/ s.val < 0 \/ s.val > Unit
     \/ p.raised # "" \/ p.val < 0

\* C9: with malformed or out-of-range thresholds no page is processed and
\* no result is produced.
C9_BadThresholdsRejected ==
  BadThresholds => (obs = <<>> /\ rows = <<>> /\ report = <<>> /\ pc # "done")

\* whether an extension is .png, .jpg, .jpeg or .webp, case-insensitively
IsCaptureExt(ext) ==
  \E e \in {png, jpg, jpeg, webp} :
    Len(ext) = Len(e) /\ \A i \in 1..Len(e) : LowerChar(ext[i]) = e[i]

\* C10: the files the comparison counts as captures are the files of the
\* page whose extension is .png, .jpg, .jpeg or .webp in any case, each
\* once, and they are the files the download mirrored.
C10_SameCaptureSet ==
  spc \in {"globbed", "sorted", "raised", "skipped", "selected"} =>
    /\ {simgs[i] : i \in 1..Len(simgs)} = {f \in stitles : IsCaptureExt(f.name.ext)}
    /\ {simgs[i] : i \in 1..Len(simgs)} = sdir
    /\ Len(simgs) = Cardinality(sdir)
====
